---- MODULE Spec2Model ----
(***************************************************************************)
(* A model of the Power BI deployment scripts: scripts/main.py (validate,  *)
(* package a PBIP project into a PBIX container, upload it through the     *)
(* staged / direct / multipart / minimal-parameter chain, clean up),       *)
(* scripts/auth.py (token) and scripts/deploy.py (dataset polling and      *)
(* data-source rebinding helpers).                                         *)
(***************************************************************************)
EXTENDS Integers, Sequences, FiniteSets, TLC

\* ------------------------------------------------------------------ bounds

\* Most static resource files under <report>/StaticResources.
MaxResources == 2

\* Largest timeout (seconds) handed to wait_for_dataset.
MaxTimeout == 12

\* Longest a single status request takes (seconds of wall clock).
MaxLatency == 2

\* Most entries of a dataset's data-source list.
MaxDs == 3

\* Most workspaces the service lists.
MaxWs == 2

\* --------------------------------------------------------------- constants

\* time.sleep(5); elapsed+=5
PollInterval == 5

\* ------------------------------------------------------------------- state

VARIABLES
    entry,       \* which function of the repository this run calls
    project,     \* the PBIP project directory on disk
    pc,          \* position inside main / the builder
    token,       \* main: the bearer token, "" before get_token returned
    pbix_file,   \* main: pbix_file, "None" until the builder returned a path
    disk,        \* the temporary .pbix file: [exists, entries, damage]
    created,     \* history: the temporary file was created at some point
    verified,    \* history: the builder re-opened the file and read every entry
    returned,    \* a builder called on its own: the path it returned, or "None"
    upload_url,  \* import_pbix_with_temp_upload: upload_url
    result,      \* main: result
    responses,   \* import_pbix_simple: response, response2, response3 so far
    attempts,    \* history: one record per upload strategy attempted
    httpLog,     \* history: every HTTP request issued, in order
    error,       \* the exception that ended the run, with its message entries
    exitCode,    \* the process exit code, -1 while running
    wait,        \* wait_for_dataset: its locals, the clock and its outcome
    rebind,      \* build_update_requests / update_datasources: inputs and outputs
    resolve,     \* get_workspace_id: its arguments, the service's list, its outcome
    staged       \* history: the status each staged step got, and the url of step 1

vars == <<entry, project, pc, token, pbix_file, disk, created, verified, returned,
          upload_url, result, responses, attempts, httpLog, error, exitCode, wait,
          rebind, resolve, staged>>

\* ----------------------------------------------------------------- helpers

RECURSIVE SeqsUpTo(_, _)
\* Every sequence over S of length at most n.
SeqsUpTo(S, n) ==
    IF n = 0 THEN {<<>>}
    ELSE LET shorter == SeqsUpTo(S, n - 1)
         IN  shorter \cup {Append(s, x) : s \in {t \in shorter : Len(t) = n - 1}, x \in S}

\* -------------------------------------------------------- the PBIP project

FileStates == {"absent", "valid", "invalid"}

\* The archive names os.walk gives the static resources, in walk order.
ResourceNames ==
    <<"Report/StaticResources/a.json", "Report/StaticResources/b.png",
      "Report/StaticResources/c.css",  "Report/StaticResources/d.js">>

\* A project directory: the two component directories, report.json, model.bim,
\* diagramLayout.json (absent, valid JSON or invalid JSON) and the static
\* resources, each readable ("ok") or failing when read ("unreadable").
Projects ==
    { [reportDir |-> rd, reportJson |-> rj, modelDir |-> md, modelBim |-> mb,
       diagram |-> dg, resources |-> rs] :
        rd \in BOOLEAN, rj \in FileStates, md \in BOOLEAN, mb \in FileStates,
        dg \in FileStates, rs \in SeqsUpTo({"ok", "unreadable"}, MaxResources) }

\* Files live in their directory: without the directory there is no file in it.
WellFormed(p) ==
    /\ (~p.reportDir => p.reportJson = "absent" /\ p.resources = <<>>)
    /\ (~p.modelDir => p.modelBim = "absent" /\ p.diagram = "absent")

\* validate_pbip_structure returning True as soon as one required file is there.
ValidateLoose(p) ==
    LET nReport == IF p.reportDir /\ p.reportJson # "absent" THEN 1 ELSE 0
        nModel  == IF p.modelDir /\ p.modelBim # "absent" THEN 1 ELSE 0
    IN  nReport + nModel >= 1

\* validate_pbip_structure: report.json and model.bim are both there.
ValidatePbipStructure(p) ==
    LET nReport == IF p.reportDir /\ p.reportJson # "absent" THEN 1 ELSE 0
        nModel  == IF p.modelDir /\ p.modelBim # "absent" THEN 1 ELSE 0
    IN  nReport + nModel >= 2

\* ------------------------------------------------------------- the builders

NoFile == [exists |-> FALSE, entries |-> <<>>, damage |-> "none"]

\* What the operating system does to the builder's file: nothing, refuse to
\* create the temporary file, fail a write, or leave a container that does not
\* re-open ("unopenable") or holds an entry that does not read back ("badentry").
IoOutcomes == {"ok", "mktemp_error", "write_error", "unopenable", "badentry"}

FixedHead == <<"Version", "DataModelSchema">>

FixedTail == <<"Settings", "SecurityBindings", "Connections", "Metadata">>

RECURSIVE ResourceEntriesUntilFailure(_, _)
\* A loop that the first failing file ends.
ResourceEntriesUntilFailure(rs, i) ==
    IF i > Len(rs) \/ rs[i] # "ok" THEN <<>>
    ELSE <<ResourceNames[i]>> \o ResourceEntriesUntilFailure(rs, i + 1)

RECURSIVE ResourceEntries(_, _)
\* The static resources added by the os.walk loop, from the i-th on: a file
\* whose read fails is warned about and left out.
ResourceEntries(rs, i) ==
    IF i > Len(rs) THEN <<>>
    ELSE (IF rs[i] = "ok" THEN <<ResourceNames[i]>> ELSE <<>>)
         \o ResourceEntries(rs, i + 1)

\* A builder that embeds diagramLayout.json whenever the file is there.
ProperEntriesAnyDiagram(p) ==
    FixedHead
    \o (IF p.reportJson = "valid" THEN <<"Report/Layout">> ELSE <<>>)
    \o (IF p.modelBim = "valid" THEN <<"DataModel">> ELSE <<>>)
    \o (IF p.diagram # "absent" THEN <<"DiagramLayout">> ELSE <<>>)
    \o FixedTail
    \o ResourceEntries(p.resources, 1)

\* The entries create_proper_pbix_from_pbip writes, in write order.
ProperEntries(p) ==
    FixedHead
    \o (IF p.reportJson = "valid" THEN <<"Report/Layout">> ELSE <<>>)
    \o (IF p.modelBim = "valid" THEN <<"DataModel">> ELSE <<>>)
    \o (IF p.diagram = "valid" THEN <<"DiagramLayout">> ELSE <<>>)
    \o FixedTail
    \o ResourceEntries(p.resources, 1)

\* The entries create_minimal_pbix_for_testing writes, in write order.
MinimalEntries ==
    <<"Version", "DataModelSchema", "DataModel", "Report/Layout">> \o FixedTail

\* A temporary file whose writing an exception cut short.
Partial == [exists |-> TRUE, entries |-> FixedHead, damage |-> "unopenable"]

\* create_proper_pbix_from_pbip up to the end of the writing "with" block:
\* the exception raised ("" for none), whether the temporary file was created,
\* and the file on disk at that point.
ProperWrite(p, io) ==
    IF ~p.reportDir \/ ~p.modelDir
    THEN [raised |-> "FileNotFoundError", created |-> FALSE, disk |-> NoFile]
    ELSE IF io = "mktemp_error"
    THEN [raised |-> "OSError", created |-> FALSE, disk |-> NoFile]
    ELSE IF p.reportJson = "invalid" \/ p.modelBim = "invalid"
    THEN [raised |-> "InvalidJSON", created |-> TRUE, disk |-> Partial]
    ELSE IF io = "write_error"
    THEN [raised |-> "OSError", created |-> TRUE, disk |-> Partial]
    ELSE [raised |-> "", created |-> TRUE,
          disk |-> [exists |-> TRUE, entries |-> ProperEntries(p),
                    damage |-> IF io = "ok" THEN "none" ELSE io]]

\* A cleanup that leaves the file where it is.
UnlinkKeeps(d) == d

\* if os.path.exists(name): os.unlink(name)
Unlink(d) == NoFile

\* A self-verification that reads nothing back.
VerifyZipSkipped(d) == TRUE

\* The builder's self-verification: the file re-opens as a zip and every entry
\* of its name list reads back.
VerifyZip(d) == d.exists /\ d.damage = "none"

\* -------------------------------------------------------------------- HTTP

\* Response bodies of a success status: no content, an empty JSON object, an
\* import object with an id, a location object with a url, and text that is
\* not JSON.
OkBodies ==
    {"", "{}", "{\"id\":\"imp1\"}", "{\"url\":\"u1\"}", "{\"url\":\"u2\"}", "<html>"}

Responses ==
    {[status |-> s, body |-> b] : s \in {200, 201, 202}, b \in OkBodies}
    \cup {[status |-> 403, body |-> "denied"], [status |-> 500, body |-> "{}"]}

\* requests raised instead of returning a response (timeout, connection error).
TransportError == [status |-> 0, body |-> "RequestException"]

Outcomes == Responses \cup {TransportError}

\* response.json(): whether the body parses, and the object it parses to as a
\* set of <<key, value>> pairs.
JsonLoads(body) ==
    CASE body = "{}"                  -> [ok |-> TRUE, dict |-> {}]
      [] body = "{\"id\":\"imp1\"}"   -> [ok |-> TRUE, dict |-> {<<"id", "imp1">>}]
      [] body = "{\"url\":\"u1\"}"    -> [ok |-> TRUE, dict |-> {<<"url", "u1">>}]
      [] body = "{\"url\":\"u2\"}"    -> [ok |-> TRUE, dict |-> {<<"url", "u2">>}]
      [] OTHER                        -> [ok |-> FALSE, dict |-> {}]

\* dict.get(key), "" for None.
Get(dict, key) ==
    IF \E kv \in dict : kv[1] = key
    THEN (CHOOSE kv \in dict : kv[1] = key)[2]
    ELSE ""

\* Python values of main's result: None, or a dict.
None == [isNone |-> TRUE, dict |-> {}]

Dict(d) == [isNone |-> FALSE, dict |-> d]

\* {"status": "success"}
Sentinel == {<<"status", "success">>}

\* Python truthiness of a result: None and the empty dict are falsy.
Truthy(v) == ~v.isNone /\ v.dict # {}

\* A parse of every body, the empty one too.
ParseResultStrict(r) == JsonLoads(r.body)

\* response.json() if response.content else {"status": "success"}
\* (ok is FALSE when json() raises).
ParseResult(r) ==
    IF r.body = "" THEN [ok |-> TRUE, dict |-> Sentinel] ELSE JsonLoads(r.body)

\* A test that lets 202 pass as well.
CreatedOrAccepted(status) == status \in {200, 201, 202}

\* status_code in (200, 201): the location request and the byte transfer.
Created(status) == status \in {200, 201}

\* An import request whose status is never looked at.
AcceptedAll(status) == TRUE

\* status_code in (200, 201, 202): every import request.
Accepted(status) == status \in {200, 201, 202}

Req(kind, url) == [kind |-> kind, url |-> url]

\* What a staged step got back: the status, and the url the answer carried.
Got(status, url) == [status |-> status, url |-> url]

Attempt(strategy, r, outcome) ==
    [strategy |-> strategy, status |-> r.status, body |-> r.body, outcome |-> outcome]

NoError == [kind |-> "none", entries |-> <<>>]

Raised(kind) == [kind |-> kind, entries |-> <<>>]

\* The locals wait_for_dataset and the rebinding helpers have before a call.
WaitIdle == [pc |-> "idle", timeout |-> 0, ready |-> 0, jobFailed |-> FALSE,
             elapsed |-> 0, now |-> 0, requests |-> 0, outcome |-> "none", at |-> 0]

RebindIdle == [pc |-> "idle", value |-> <<>>, datasources |-> <<>>,
               dw_connection |-> "", dw_name |-> "", username |-> "",
               password |-> "", updates |-> <<>>, body |-> <<>>, calls |-> 0]

\* The locals of get_workspace_id before a call.
ResolveIdle == [pc |-> "idle", workspace_id |-> "", workspace_name |-> "",
                groups |-> <<>>, outcome |-> "none", id |-> ""]

\* -------------------------------------------------- scripts/main.py: main()

Init ==
    /\ entry = "main"
    /\ project \in {p \in Projects : WellFormed(p)}
    /\ pc = "token"
    /\ token = ""
    /\ pbix_file = "None"
    /\ disk = NoFile
    /\ created = FALSE
    /\ verified = FALSE
    /\ returned = "None"
    /\ upload_url = ""
    /\ result = None
    /\ responses = <<>>
    /\ attempts = <<>>
    /\ httpLog = <<>>
    /\ error = NoError
    /\ exitCode = -1
    /\ wait = WaitIdle
    /\ rebind = RebindIdle
    /\ resolve = ResolveIdle
    /\ staged = <<>>

\* token = get_token(...): raises SystemExit on a status other than 200. The
\* call stands before main's try block, so no handler and no finally runs.
GetToken ==
    /\ pc = "token"
    /\ \E r \in {[status |-> 200, body |-> "{\"access_token\":\"t1\"}"],
                 [status |-> 401, body |-> "denied"], TransportError} :
         /\ httpLog' = Append(httpLog, Req("token", ""))
         /\ IF r.status = 200
            THEN /\ token' = "t1"
                 /\ pc' = "validate"
                 /\ UNCHANGED <<error, exitCode>>
            ELSE /\ token' = token
                 /\ pc' = "exited"
                 /\ error' = Raised("auth")
                 /\ exitCode' = 1
    /\ UNCHANGED <<staged, resolve, entry, project, pbix_file, disk, created, verified, returned,
                   upload_url, result, responses, attempts, wait, rebind>>

\* if not validate_pbip_structure(project_dir): raise Exception(...)
Validate ==
    /\ pc = "validate"
    /\ IF ValidatePbipStructure(project)
       THEN pc' = "build" /\ error' = error
       ELSE pc' = "except" /\ error' = Raised("validation")
    /\ UNCHANGED <<staged, resolve, entry, project, token, pbix_file, disk, created, verified,
                   returned, upload_url, result, responses, attempts, httpLog,
                   exitCode, wait, rebind>>

\* A caller that goes on to the upload whether or not the builder raised.
AfterBuildGoesOn(raised) == IF entry = "main" THEN "staged1" ELSE "done"

\* Where a builder's caller goes on: main's next statement or its handler, or
\* the end of a call of the builder on its own.
AfterBuild(raised) ==
    IF entry = "main" THEN (IF raised THEN "except" ELSE "staged1") ELSE "done"

\* create_proper_pbix_from_pbip, lines 107-228: create the temporary file and
\* write the container. An exception unlinks the file and is re-raised.
BuildWrite ==
    /\ pc = "build"
    /\ \E io \in IoOutcomes :
         LET w == ProperWrite(project, io)
         IN  /\ created' = w.created
             /\ IF w.raised # ""
                THEN /\ disk' = IF w.disk.exists THEN Unlink(w.disk) ELSE w.disk
                     /\ error' = Raised("packaging")
                     /\ pc' = AfterBuild(TRUE)
                ELSE /\ disk' = w.disk
                     /\ error' = error
                     /\ pc' = "verify"
    /\ UNCHANGED <<staged, resolve, entry, project, token, pbix_file, verified, returned, upload_url,
                   result, responses, attempts, httpLog, exitCode, wait, rebind>>

\* create_proper_pbix_from_pbip, lines 230-251: re-open the file, read every
\* entry, return the path; a failure unlinks the file and is re-raised.
BuildVerify ==
    /\ pc = "verify"
    /\ IF ~VerifyZip(disk)
       THEN /\ disk' = Unlink(disk)
            /\ error' = Raised("packaging")
            /\ pc' = AfterBuild(TRUE)
            /\ UNCHANGED <<verified, pbix_file, returned>>
       ELSE /\ verified' = TRUE
            /\ pc' = AfterBuild(FALSE)
            /\ pbix_file' = IF entry = "main" THEN "tmp.pbix" ELSE pbix_file
            /\ returned' = IF entry = "main" THEN returned ELSE "tmp.pbix"
            /\ UNCHANGED <<disk, error>>
    /\ UNCHANGED <<staged, resolve, entry, project, token, created, upload_url, result, responses,
                   attempts, httpLog, exitCode, wait, rebind>>

\* ---------------------------------- main.py: import_pbix_with_temp_upload

\* if not result: ... result = import_pbix_simple(...)
FallsBack(v) == ~Truthy(v)

\* main, lines 509-514, once import_pbix_with_temp_upload returned v.
StagedReturns(v) ==
    /\ result' = v
    /\ pc' = IF FallsBack(v) THEN "simple" ELSE "report"
    /\ error' = error

\* An exception leaves the upload functions and reaches main's handler.
UploadRaises ==
    /\ result' = result
    /\ pc' = "except"
    /\ error' = Raised("upload_exception")

\* Step 1: POST .../imports/createTemporaryUploadLocation.
Staged1 ==
    /\ pc = "staged1"
    /\ \E r \in Outcomes :
         LET js == JsonLoads(r.body)
         IN  /\ httpLog' = Append(httpLog, Req("location", ""))
             /\ staged' = Append(staged, Got(r.status, Get(js.dict, "url")))
             /\ IF r = TransportError \/ (Created(r.status) /\ ~js.ok)
                THEN /\ UploadRaises
                     /\ attempts' = Append(attempts, Attempt("staged", r, "raised"))
                     /\ upload_url' = upload_url
                ELSE IF ~Created(r.status) \/ Get(js.dict, "url") = ""
                THEN /\ StagedReturns(None)
                     /\ attempts' = Append(attempts, Attempt("staged", r, "fail"))
                     /\ upload_url' = upload_url
                ELSE /\ upload_url' = Get(js.dict, "url")
                     /\ pc' = "staged2"
                     /\ UNCHANGED <<result, error, attempts>>
    /\ UNCHANGED <<resolve, entry, project, token, pbix_file, disk, created, verified,
                   returned, responses, exitCode, wait, rebind>>

\* Step 2: PUT the file's bytes to the temporary location.
Staged2 ==
    /\ pc = "staged2"
    /\ \E r \in Outcomes :
         /\ httpLog' = Append(httpLog, Req("put", upload_url))
         /\ staged' = Append(staged, Got(r.status, ""))
         /\ IF r = TransportError
            THEN /\ UploadRaises
                 /\ attempts' = Append(attempts, Attempt("staged", r, "raised"))
            ELSE IF ~Created(r.status)
            THEN /\ StagedReturns(None)
                 /\ attempts' = Append(attempts, Attempt("staged", r, "fail"))
            ELSE /\ pc' = "staged3"
                 /\ UNCHANGED <<result, error, attempts>>
    /\ UNCHANGED <<resolve, entry, project, token, pbix_file, disk, created, verified,
                   returned, upload_url, responses, exitCode, wait, rebind>>

\* Step 3: POST .../imports with fileUrl set to the temporary location.
Staged3 ==
    /\ pc = "staged3"
    /\ \E r \in Outcomes :
         LET parsed == ParseResult(r)
         IN  /\ httpLog' = Append(httpLog, Req("trigger", upload_url))
             /\ staged' = Append(staged, Got(r.status, ""))
             /\ IF r = TransportError \/ (Accepted(r.status) /\ ~parsed.ok)
                THEN /\ UploadRaises
                     /\ attempts' = Append(attempts, Attempt("staged", r, "raised"))
                ELSE IF Accepted(r.status)
                THEN /\ StagedReturns(Dict(parsed.dict))
                     /\ attempts' = Append(attempts, Attempt("staged", r, "ok"))
                ELSE /\ StagedReturns(None)
                     /\ attempts' = Append(attempts, Attempt("staged", r, "fail"))
    /\ UNCHANGED <<resolve, entry, project, token, pbix_file, disk, created, verified,
                   returned, upload_url, responses, exitCode, wait, rebind>>

\* --------------------------------------------- main.py: import_pbix_simple

\* Checks that let every file pass.
PrecheckRaisesNever(d) == FALSE

\* The checks before any request: the file exists, is not empty and opens as
\* a zip (testzip() reports a bad entry by its return value, which is dropped).
PrecheckRaises(d) == ~d.exists \/ d.damage \in {"empty", "unopenable"}

\* Lines 327-361: the file checks, then the workspace GET, whose status and
\* exceptions are only printed.
SimplePre ==
    /\ pc = "simple"
    /\ IF PrecheckRaises(disk)
       THEN /\ pc' = "except"
            /\ error' = Raised("upload_exception")
            /\ httpLog' = httpLog
       ELSE /\ \E r \in {[status |-> 200, body |-> "{}"],
                         [status |-> 403, body |-> "denied"], TransportError} :
                 httpLog' = Append(httpLog, Req("workspace", ""))
            /\ pc' = "m1"
            /\ error' = error
    /\ UNCHANGED <<staged, resolve, entry, project, token, pbix_file, disk, created, verified,
                   returned, upload_url, result, responses, attempts, exitCode,
                   wait, rebind>>

\* A message that repeats the last response under all three method names.
AllFailedEntriesLast(rs) ==
    << [method |-> "Binary",    status |-> rs[3].status, body |-> rs[3].body],
       [method |-> "Multipart", status |-> rs[3].status, body |-> rs[3].body],
       [method |-> "Minimal",   status |-> rs[3].status, body |-> rs[3].body] >>

\* The message of the exception raised when the third method failed too.
AllFailedEntries(rs) ==
    << [method |-> "Binary",    status |-> rs[1].status, body |-> rs[1].body],
       [method |-> "Multipart", status |-> rs[2].status, body |-> rs[2].body],
       [method |-> "Minimal",   status |-> rs[3].status, body |-> rs[3].body] >>

\* One method of import_pbix_simple: POST, return the parsed result on 200,
\* 201 or 202, go on to the next method otherwise; after the last one raise
\* the exception that names all three. A RequestException is re-raised.
Method(at, strategy, kind, next) ==
    /\ pc = at
    /\ \E r \in Outcomes :
         LET parsed == ParseResult(r)
         IN  /\ httpLog' = Append(httpLog, Req(kind, ""))
             /\ IF r = TransportError \/ (Accepted(r.status) /\ ~parsed.ok)
                THEN /\ UploadRaises
                     /\ responses' = responses
                     /\ attempts' = Append(attempts, Attempt(strategy, r, "raised"))
                ELSE IF Accepted(r.status)
                THEN /\ result' = Dict(parsed.dict)
                     /\ pc' = "report"
                     /\ error' = error
                     /\ responses' = Append(responses, r)
                     /\ attempts' = Append(attempts, Attempt(strategy, r, "ok"))
                ELSE /\ result' = result
                     /\ responses' = Append(responses, r)
                     /\ attempts' = Append(attempts, Attempt(strategy, r, "fail"))
                     /\ IF next = "raise"
                        THEN /\ pc' = "except"
                             /\ error' = [kind |-> "all_failed",
                                          entries |-> AllFailedEntries(responses')]
                        ELSE /\ pc' = next
                             /\ error' = error
    /\ UNCHANGED <<staged, resolve, entry, project, token, pbix_file, disk, created, verified,
                   returned, upload_url, exitCode, wait, rebind>>

\* Method 1: direct binary upload (octet-stream body, datasetDisplayName quoted).
Method1 == Method("m1", "binary", "binary", "m2")

\* Method 2: multipart form upload with the display name as a form field.
Method2 == Method("m2", "multipart", "multipart", "m3")

\* Method 3: multipart upload with nameConflict as the only parameter.
Method3 == Method("m3", "minimal", "minimal", "raise")

\* ------------------------------------------- main(): the end of the run

\* Lines 516-520: the success banner, and the import id when 'id' in result
\* (a TypeError when result is None).
Report ==
    /\ pc = "report"
    /\ IF result.isNone
       THEN pc' = "except" /\ error' = Raised("type_error")
       ELSE pc' = "finally" /\ error' = error
    /\ UNCHANGED <<staged, resolve, entry, project, token, pbix_file, disk, created, verified,
                   returned, upload_url, result, responses, attempts, httpLog,
                   exitCode, wait, rebind>>

\* Lines 522-538: print the error and the file's details, then sys.exit(1).
Except ==
    /\ pc = "except"
    /\ pc' = "finally"
    /\ UNCHANGED <<staged, resolve, entry, project, token, pbix_file, disk, created, verified,
                   returned, upload_url, result, responses, attempts, httpLog,
                   error, exitCode, wait, rebind>>

\* A handler that prints the error and lets the run end as a success.
ExitStatusSwallowed(err) == 0

\* The exit code of the process: 1 from sys.exit(1) in the handler, 0 when
\* main returned.
ExitStatus(err) == IF err.kind = "none" THEN 0 ELSE 1

\* Lines 539-542, then the process ends: 0 after the success banner, 1 after
\* sys.exit(1).
Finally ==
    /\ pc = "finally"
    /\ disk' = IF pbix_file # "None" /\ disk.exists THEN Unlink(disk) ELSE disk
    /\ exitCode' = ExitStatus(error)
    /\ pc' = "exited"
    /\ UNCHANGED <<staged, resolve, entry, project, token, pbix_file, created, verified, returned,
                   upload_url, result, responses, attempts, httpLog, error, wait,
                   rebind>>

Next ==
    \/ GetToken
    \/ Validate
    \/ BuildWrite
    \/ BuildVerify
    \/ Staged1
    \/ Staged2
    \/ Staged3
    \/ SimplePre
    \/ Method1
    \/ Method2
    \/ Method3
    \/ Report
    \/ Except
    \/ Finally

Spec == Init /\ [][Next]_vars

\* ------------------------------------- the builders called on their own

\* create_minimal_pbix_for_testing: create the temporary file, write the fixed
\* entries, return the path; an exception unlinks the file and is re-raised.
CreateMinimal ==
    /\ pc = "minimal"
    /\ \E io \in IoOutcomes :
         IF io = "mktemp_error"
         THEN /\ created' = FALSE
              /\ disk' = NoFile
              /\ error' = Raised("packaging")
              /\ returned' = "None"
         ELSE IF io = "write_error"
         THEN /\ created' = TRUE
              /\ disk' = Unlink(Partial)
              /\ error' = Raised("packaging")
              /\ returned' = "None"
         ELSE /\ created' = TRUE
              /\ disk' = [exists |-> TRUE, entries |-> MinimalEntries,
                          damage |-> IF io = "ok" THEN "none" ELSE io]
              /\ error' = error
              /\ returned' = "tmp.pbix"
    /\ pc' = "done"
    /\ UNCHANGED <<staged, resolve, entry, project, token, pbix_file, verified, upload_url, result,
                   responses, attempts, httpLog, exitCode, wait, rebind>>

\* A project with every component in place, for the calls that read none.
PlainProject ==
    [reportDir |-> TRUE, reportJson |-> "valid", modelDir |-> TRUE,
     modelBim |-> "valid", diagram |-> "absent", resources |-> <<>>]

\* A run of main, or a call of one of the two builders of main.py on its own.
InitBuild ==
    /\ entry \in {"main", "proper", "minimal"}
    /\ project \in {p \in Projects : WellFormed(p) /\ (entry = "minimal" => p = PlainProject)}
    /\ pc = (CASE entry = "main" -> "token" [] entry = "proper" -> "build"
               [] OTHER -> "minimal")
    /\ token = ""
    /\ pbix_file = "None"
    /\ disk = NoFile
    /\ created = FALSE
    /\ verified = FALSE
    /\ returned = "None"
    /\ upload_url = ""
    /\ result = None
    /\ responses = <<>>
    /\ attempts = <<>>
    /\ httpLog = <<>>
    /\ error = NoError
    /\ exitCode = -1
    /\ wait = WaitIdle
    /\ rebind = RebindIdle
    /\ resolve = ResolveIdle
    /\ staged = <<>>

NextBuild == Next \/ CreateMinimal

SpecBuild == InitBuild /\ [][NextBuild]_vars

\* ------------------------------- import_pbix_simple called on its own

\* The files a caller may hand to import_pbix_simple: none at that path, an
\* empty file, a file that is no zip, a zip with an entry that does not read
\* back, and a sound container.
SimpleFiles ==
    {NoFile}
    \cup {[exists |-> TRUE, entries |-> <<>>, damage |-> d] :
             d \in {"empty", "unopenable"}}
    \cup {[exists |-> TRUE, entries |-> MinimalEntries, damage |-> d] :
             d \in {"badentry", "none"}}

\* A call import_pbix_simple(token, workspace_id, pbix_path, name).
InitSimple ==
    /\ entry = "import_pbix_simple"
    /\ project = PlainProject
    /\ pc = "simple"
    /\ token = "t1"
    /\ pbix_file = "tmp.pbix"
    /\ disk \in SimpleFiles
    /\ created = FALSE
    /\ verified = FALSE
    /\ returned = "None"
    /\ upload_url = ""
    /\ result = None
    /\ responses = <<>>
    /\ attempts = <<>>
    /\ httpLog = <<>>
    /\ error = NoError
    /\ exitCode = -1
    /\ wait = WaitIdle
    /\ rebind = RebindIdle
    /\ resolve = ResolveIdle
    /\ staged = <<>>

\* The function's steps; it has returned at "report" and raised at "except".
NextSimple == SimplePre \/ Method1 \/ Method2 \/ Method3

SpecSimple == InitSimple /\ [][NextSimple]_vars

\* ------------------------------------- scripts/deploy.py: wait_for_dataset

\* A loop that stops one interval early.
LoopContinuesEarly(elapsed, timeout) == elapsed + PollInterval < timeout

\* A loop that takes one more turn when elapsed has just reached the timeout.
LoopContinuesLate(elapsed, timeout) == elapsed <= timeout

\* while elapsed < timeout:
LoopContinues(elapsed, timeout) == elapsed < timeout

\* A test that takes any answer for one that lists the dataset.
DatasetListedAlways(ready, t) == TRUE

\* ds=[d for d in r.json().get('value',[]) if d.get('name')==dataset_name]
\* if ds: at wall-clock second t, against a service that lists the dataset
\* from second "ready" on.
DatasetListed(ready, t) == ready # -1 /\ t >= ready

\* A call wait_for_dataset(token, workspace, name, timeout) against a service
\* that lists no dataset of that name before wall-clock second "ready" and
\* lists one from then on (-1: it never lists one). jobFailed: the import job
\* ended in the state Failed at the service, so no dataset ever appears.
InitWait ==
    /\ entry = "wait_for_dataset"
    /\ project = PlainProject
    /\ pc = "call"
    /\ token = "t1"
    /\ pbix_file = "None"
    /\ disk = NoFile
    /\ created = FALSE
    /\ verified = FALSE
    /\ returned = "None"
    /\ upload_url = ""
    /\ result = None
    /\ responses = <<>>
    /\ attempts = <<>>
    /\ httpLog = <<>>
    /\ error = NoError
    /\ exitCode = -1
    /\ \E t \in -1..MaxTimeout, rdy \in -1..MaxTimeout, failed \in BOOLEAN :
         /\ failed => rdy = -1
         /\ wait = [pc |-> "loop", timeout |-> t, ready |-> rdy,
                    jobFailed |-> failed, elapsed |-> 0, now |-> 0,
                    requests |-> 0, outcome |-> "none", at |-> 0]
    /\ rebind = RebindIdle
    /\ resolve = ResolveIdle
    /\ staged = <<>>

\* One turn of the loop: GET the dataset list (the answer takes "lat" seconds
\* and shows the service at that moment), raise on an HTTP error status,
\* return the id of a dataset with the name, else sleep 5 and add 5 to elapsed.
WaitPoll ==
    /\ wait.pc = "loop"
    /\ LoopContinues(wait.elapsed, wait.timeout)
    /\ \E lat \in 0..MaxLatency, status \in {200, 500} :
         LET t     == wait.now + lat
             found == DatasetListed(wait.ready, t)
         IN  /\ httpLog' = Append(httpLog, Req("datasets", ""))
             /\ IF status # 200
                THEN /\ wait' = [wait EXCEPT !.pc = "done", !.now = t, !.at = t,
                                             !.requests = @ + 1,
                                             !.outcome = "http_error"]
                     /\ error' = Raised("http_error")
                ELSE IF found
                THEN /\ wait' = [wait EXCEPT !.pc = "done", !.now = t, !.at = t,
                                             !.requests = @ + 1,
                                             !.outcome = "returned"]
                     /\ error' = error
                ELSE /\ wait' = [wait EXCEPT !.now = t + PollInterval,
                                             !.elapsed = @ + PollInterval,
                                             !.requests = @ + 1]
                     /\ error' = error
    /\ UNCHANGED <<staged, resolve, entry, project, pc, token, pbix_file, disk, created, verified,
                   returned, upload_url, result, responses, attempts, exitCode,
                   rebind>>

\* The loop ended without a return: raise Exception('Dataset not found after import').
WaitTimeout ==
    /\ wait.pc = "loop"
    /\ ~LoopContinues(wait.elapsed, wait.timeout)
    /\ wait' = [wait EXCEPT !.pc = "done", !.at = wait.now, !.outcome = "timeout"]
    /\ error' = Raised("timeout")
    /\ UNCHANGED <<staged, resolve, entry, project, pc, token, pbix_file, disk, created, verified,
                   returned, upload_url, result, responses, attempts, httpLog,
                   exitCode, rebind>>

NextWait == WaitPoll \/ WaitTimeout

SpecWait == InitWait /\ [][NextWait]_vars

\* The call runs on: every request returns and every sleep ends.
SpecWaitFair == SpecWait /\ WF_vars(NextWait)

\* -------------------------------- scripts/deploy.py: build_update_requests

\* An entry of a dataset's data-source list: its datasourceId ("" when the
\* entry has no such key) and its datasourceType ("" when it has none).
Datasources == {[id |-> i, type |-> t] : i \in {"", "d1", "d2"}, t \in {"", "Sql"}}

\* A connection string with the authority and the catalog in each other's place.
ConnectionStringSwapped(dw_connection, dw_name) ==
    <<"powerbi://", dw_name, ";Initial Catalog=", dw_connection>>

\* f'powerbi://{dw_connection};Initial Catalog={dw_name}'
ConnectionString(dw_connection, dw_name) ==
    <<"powerbi://", dw_connection, ";Initial Catalog=", dw_name>>

\* A credential block as soon as either of username and password is there.
SuppliedEither(username, password) == username # "" \/ password # ""

\* if username and password:
Supplied(username, password) == username # "" /\ password # ""

\* The update built for one entry: the selector holds datasourceId only when
\* the entry has it and datasourceType always (None, here "", without one);
\* credentialDetails is None, here the empty set, unless username and password
\* are both non-empty.
UpdateFor(ds, dw_connection, dw_name, username, password) ==
    [datasourceSelector |->
        (IF ds.id # "" THEN {<<"datasourceId", ds.id>>} ELSE {})
        \cup {<<"datasourceType", ds.type>>},
     connectionDetails |-> ConnectionString(dw_connection, dw_name),
     credentialDetails |->
        IF Supplied(username, password)
        THEN {<<"credentialType", "Basic">>, <<"username", username>>,
              <<"password", password>>, <<"credentialsEncrypted", "False">>}
        ELSE {}]

\* build_update_requests: one update appended per entry of the list, in order.
BuildUpdateRequests(dss, dw_connection, dw_name, username, password) ==
    [i \in 1..Len(dss) |-> UpdateFor(dss[i], dw_connection, dw_name, username, password)]

\* A caller with the destination settings, rebinding a dataset whose
\* data-source list at the service is "value".
InitRebind ==
    /\ entry = "build_update_requests"
    /\ project = PlainProject
    /\ pc = "call"
    /\ token = "t1"
    /\ pbix_file = "None"
    /\ disk = NoFile
    /\ created = FALSE
    /\ verified = FALSE
    /\ returned = "None"
    /\ upload_url = ""
    /\ result = None
    /\ responses = <<>>
    /\ attempts = <<>>
    /\ httpLog = <<>>
    /\ error = NoError
    /\ exitCode = -1
    /\ wait = WaitIdle
    /\ \E dss \in SeqsUpTo(Datasources, MaxDs), conn \in {"wh1", "wh2"},
          u \in {"", "user"}, pw \in {"", "secret"} :
         rebind = [pc |-> "get", value |-> dss, datasources |-> <<>>,
                   dw_connection |-> conn, dw_name |-> "cat1", username |-> u,
                   password |-> pw, updates |-> <<>>, body |-> <<>>, calls |-> 0]
    /\ resolve = ResolveIdle
    /\ staged = <<>>

\* datasources = get_datasources(...): GET .../datasources, raise on an HTTP
\* error status, return the 'value' list of the answer.
GetDatasources ==
    /\ rebind.pc = "get"
    /\ \E status \in {200, 404} :
         /\ httpLog' = Append(httpLog, Req("datasources", ""))
         /\ IF status = 200
            THEN /\ rebind' = [rebind EXCEPT !.pc = "build",
                                             !.datasources = rebind.value]
                 /\ error' = error
            ELSE /\ rebind' = [rebind EXCEPT !.pc = "done"]
                 /\ error' = Raised("http_error")
    /\ UNCHANGED <<staged, resolve, entry, project, pc, token, pbix_file, disk, created, verified,
                   returned, upload_url, result, responses, attempts, exitCode,
                   wait>>

\* updates = build_update_requests(datasources, dw_connection, dw_name, ...)
Build ==
    /\ rebind.pc = "build"
    /\ rebind' = [rebind EXCEPT
                    !.pc = "built",
                    !.updates = BuildUpdateRequests(rebind.datasources,
                                    rebind.dw_connection, rebind.dw_name,
                                    rebind.username, rebind.password)]
    /\ UNCHANGED <<staged, resolve, entry, project, pc, token, pbix_file, disk, created, verified,
                   returned, upload_url, result, responses, attempts, httpLog,
                   error, exitCode, wait>>

\* update_datasources: POST {'updateDetails': updates} to
\* Default.UpdateDatasources, raise on an HTTP error status.
UpdateDatasources ==
    /\ rebind.pc = "built"
    /\ \E status \in {200, 400} :
         /\ httpLog' = Append(httpLog, Req("update", ""))
         /\ rebind' = [rebind EXCEPT !.pc = "done", !.calls = @ + 1,
                                     !.body = rebind.updates]
         /\ error' = IF status = 200 THEN error ELSE Raised("http_error")
    /\ UNCHANGED <<staged, resolve, entry, project, pc, token, pbix_file, disk, created, verified,
                   returned, upload_url, result, responses, attempts, exitCode,
                   wait>>

NextRebind == GetDatasources \/ Build \/ UpdateDatasources

SpecRebind == InitRebind /\ [][NextRebind]_vars

\* ------------------------------------- scripts/deploy.py: get_workspace_id

\* A comparison of names that leaves the case as it is.
LowerKept(name) == name

\* str.lower()
Lower(name) ==
    CASE name = "Sales" -> "sales"
      [] name = "SALES" -> "sales"
      [] name = "Ops"   -> "ops"
      [] name = "Dev"   -> "dev"
      [] OTHER          -> name

\* The id of the i-th workspace of the service's list.
WsId(i) == <<"w1", "w2", "w3", "w4">>[i]

\* The service's answers to GET .../groups: the 'value' list.
Groups ==
    {[i \in 1..Len(ns) |-> [name |-> ns[i], id |-> WsId(i)]] :
        ns \in SeqsUpTo({"Sales", "SALES", "Ops"}, MaxWs)}

\* ws["name"].lower() == workspace_name.lower(), for the entries of the list
\* in order, under `if workspace_name and ...`.
Matches(groups, workspace_name) ==
    {i \in 1..Len(groups) :
        workspace_name # "" /\ Lower(groups[i].name) = Lower(workspace_name)}

\* A call get_workspace_id(token, workspace_id, workspace_name); "" stands
\* for an argument left out (None).
InitWorkspace ==
    /\ entry = "get_workspace_id"
    /\ project = PlainProject
    /\ pc = "call"
    /\ token = "t1"
    /\ pbix_file = "None"
    /\ disk = NoFile
    /\ created = FALSE
    /\ verified = FALSE
    /\ returned = "None"
    /\ upload_url = ""
    /\ result = None
    /\ responses = <<>>
    /\ attempts = <<>>
    /\ httpLog = <<>>
    /\ error = NoError
    /\ exitCode = -1
    /\ wait = WaitIdle
    /\ rebind = RebindIdle
    /\ \E wid \in {"", "w9"}, wname \in {"", "sales", "Sales", "Dev"}, gs \in Groups :
         resolve = [pc |-> "call", workspace_id |-> wid, workspace_name |-> wname,
                    groups |-> gs, outcome |-> "none", id |-> ""]
    /\ staged = <<>>

\* The whole function: a given id is returned at once; otherwise GET the
\* groups, raise on an HTTP error status, return the id of the first
\* workspace whose name matches, and raise 'Workspace not found' without one.
GetWorkspaceId ==
    /\ resolve.pc = "call"
    /\ IF resolve.workspace_id # ""
       THEN /\ resolve' = [resolve EXCEPT !.pc = "done", !.outcome = "returned",
                                          !.id = resolve.workspace_id]
            /\ UNCHANGED <<httpLog, error>>
       ELSE \E status \in {200, 403} :
              LET m == Matches(resolve.groups, resolve.workspace_name)
              IN  /\ httpLog' = Append(httpLog, Req("groups", ""))
                  /\ IF status # 200
                     THEN /\ resolve' = [resolve EXCEPT !.pc = "done",
                                                        !.outcome = "http_error"]
                          /\ error' = Raised("http_error")
                     ELSE IF m # {}
                     THEN /\ resolve' =
                               [resolve EXCEPT
                                  !.pc = "done", !.outcome = "returned",
                                  !.id = resolve.groups[CHOOSE i \in m :
                                                          \A j \in m : i <= j].id]
                          /\ error' = error
                     ELSE /\ resolve' = [resolve EXCEPT !.pc = "done",
                                                        !.outcome = "not_found"]
                          /\ error' = Raised("not_found")
    /\ UNCHANGED <<staged, entry, project, pc, token, pbix_file, disk, created, verified,
                   returned, upload_url, result, responses, attempts, exitCode,
                   wait, rebind>>

NextWorkspace == GetWorkspaceId

SpecWorkspace == InitWorkspace /\ [][NextWorkspace]_vars

\* ------------------------------------------------------------ properties

StrategyOrder == <<"staged", "binary", "multipart", "minimal">>

UploadKinds == {"location", "put", "trigger", "binary", "multipart", "minimal"}

PollKinds == {"datasets", "datasources", "update"}

Issued(kinds) == \E i \in 1..Len(httpLog) : httpLog[i].kind \in kinds

ChainOver == pc \in {"report", "except", "finally", "exited"}

ArtifactReturned == returned # "None" \/ pbix_file # "None"

\* C1: for every k, when strategies 1..k-1 failed and strategy k succeeded,
\* exactly k strategies were attempted, in the order staged, binary, multipart,
\* minimal, and the chain's result is strategy k's parsed response.
C1_FirstSuccessEndsChain ==
    \A k \in 1..Len(attempts) :
        (/\ attempts[k].outcome = "ok"
         /\ \A j \in 1..(k - 1) : attempts[j].outcome = "fail")
        => /\ Len(attempts) = k
           /\ \A i \in 1..k : attempts[i].strategy = StrategyOrder[i]
           /\ (ChainOver => result = Dict(ParseResult(attempts[k]).dict))

AllFailed ==
    /\ Len(attempts) = 4
    /\ \A i \in 1..4 : attempts[i].outcome = "fail"

EntryOf(e, a) == e.status = a.status /\ e.body = a.body

\* C2 as stated: when all four strategies failed, the error carries one entry
\* per strategy, four in all, each with that attempt's status and body.
C2_FourEntries ==
    (AllFailed /\ ChainOver)
    => /\ error.kind = "all_failed"
       /\ Len(error.entries) = 4
       /\ \A i \in 1..4 : EntryOf(error.entries[i], attempts[i])

\* C2, amended: when all four strategies failed by their responses, the run
\* ends in the "all import methods failed" error, whose message carries three
\* entries, Binary, Multipart and Minimal, each with the status and body of
\* that attempt's own response; the staged attempt is not in it. And that
\* error is raised only when the three direct methods all failed.
C2_ThreeDirectEntries ==
    /\ (AllFailed /\ ChainOver) => error.kind = "all_failed"
    /\ error.kind = "all_failed"
       => /\ Len(attempts) = 4
          /\ Len(error.entries) = 3
          /\ \A i \in 1..3 :
               /\ EntryOf(error.entries[i], attempts[i + 1])
               /\ attempts[i + 1].outcome = "fail"
               /\ attempts[i + 1].strategy = StrategyOrder[i + 1]
          /\ [i \in 1..3 |-> error.entries[i].method]
               = <<"Binary", "Multipart", "Minimal">>

\* All four strategies failed, with different statuses, and the run is over.
C2_Witness ==
    /\ AllFailed
    /\ pc = "exited"
    /\ attempts[2].status # attempts[4].status
    /\ attempts[3].status # attempts[4].status

\* C3: once the temporary file was created, it is gone when the run has
\* ended, whichever way the run ended.
C3_ArtifactGoneAtExit == (pc = "exited" /\ created) => ~disk.exists

\* A run that built the artifact, failed every upload and ended.
C3_Witness ==
    /\ pc = "exited"
    /\ created
    /\ pbix_file # "None"
    /\ error.kind = "all_failed"
    /\ ~disk.exists

\* C4 as stated: success is reported only after the completion poller has
\* observed the terminal success state.
C4_SuccessAfterPoll ==
    exitCode = 0 => (Issued({"datasets"}) /\ wait.outcome = "returned")

\* C4, amended: main runs package, then upload, and reports success only
\* after an upload strategy's import request came back 200, 201 or 202; it
\* issues no status, data-source or update request, before or after.
C4_SuccessAfterUpload ==
    /\ Issued(UploadKinds) => (verified /\ pbix_file # "None")
    /\ ~Issued(PollKinds)
    /\ wait = WaitIdle
    /\ exitCode = 0
       => /\ attempts # <<>>
          /\ attempts[Len(attempts)].status \in {200, 201, 202}
          /\ attempts[Len(attempts)].outcome = "ok"
          /\ result = Dict(ParseResult(attempts[Len(attempts)]).dict)

\* A run that ended in success.
C4_Witness == exitCode = 0 /\ pc = "exited" /\ Issued(UploadKinds)

BadProject == project.reportJson # "valid" \/ project.modelBim # "valid"

Rank(name) ==
    CASE name = "Version"          -> 1
      [] name = "DataModelSchema"  -> 2
      [] name = "Report/Layout"    -> 3
      [] name = "DataModel"        -> 4
      [] name = "DiagramLayout"    -> 5
      [] name = "Settings"         -> 6
      [] name = "SecurityBindings" -> 7
      [] name = "Connections"      -> 8
      [] name = "Metadata"         -> 9
      [] OTHER                     -> 10

InMandatedOrder(es) ==
    \A i, j \in 1..Len(es) :
        i < j => (Rank(es[i]) < Rank(es[j]) \/ (Rank(es[i]) = 10 /\ Rank(es[j]) = 10))

\* C8: every artifact a builder returned has Version first and its entries in
\* the mandated order.
C8_MandatedOrder ==
    (ArtifactReturned /\ disk.exists)
    => /\ disk.entries[1] = "Version"
       /\ InMandatedOrder(disk.entries)

\* C9 as stated: a builder returns an artifact only after it re-opened the
\* file and read every entry.
C9_EveryBuilderVerifies == ArtifactReturned => verified

\* C9, amended: create_proper_pbix_from_pbip returns an artifact only after it
\* re-opened the file and read every entry, so the file it returns reads back;
\* when that fails the build fails, and main issues no upload request without
\* a verified artifact. create_minimal_pbix_for_testing returns its file
\* without re-opening it.
C9_ProperBuilderVerifies ==
    /\ (entry \in {"main", "proper"} /\ ArtifactReturned)
       => (verified /\ (disk.exists => disk.damage = "none"))
    /\ Issued(UploadKinds) => (verified /\ pbix_file # "None")
    /\ (error.kind = "packaging" /\ pc \in {"done", "exited"})
       => (~ArtifactReturned /\ ~disk.exists)
    /\ entry = "minimal" => ~verified

\* main uploading an artifact its builder verified.
C9_Witness ==
    /\ entry = "main"
    /\ verified
    /\ pbix_file # "None"
    /\ disk.exists
    /\ Issued(UploadKinds)

\* C5: wait_for_dataset raises the timeout error only with the tracked elapsed
\* time at or past the timeout; against a service that never lists the
\* dataset it never returns an id.
C5_TimeoutNotBeforeBound ==
    /\ wait.outcome = "timeout"
       => (wait.elapsed >= wait.timeout /\ wait.at >= wait.elapsed)
    /\ wait.ready = -1 => wait.outcome # "returned"

\* A wait that polled a service without the dataset more than once and timed out.
C5_Witness ==
    /\ wait.outcome = "timeout"
    /\ wait.ready = -1
    /\ wait.requests >= 2
    /\ wait.timeout > PollInterval

\* C6: against a service that answers at once and lists the dataset from
\* second "ready" on, with ready < timeout, wait_for_dataset returns the id,
\* at or after "ready" and before the timeout.
C6_ReadyBeforeTimeoutReturns ==
    (/\ wait.pc = "done"
     /\ wait.outcome # "http_error"
     /\ wait.now = wait.elapsed
     /\ wait.ready # -1
     /\ wait.ready < wait.timeout)
    => /\ wait.outcome = "returned"
       /\ wait.at >= wait.ready
       /\ wait.at < wait.timeout

WithId(dss) == {i \in 1..Len(dss) : dss[i].id # ""}

\* C10: build_update_requests emits an update only for the entries that carry
\* a datasourceId, so there are as many updates as entries with an id.
C10_UpdatesOnlyForIds ==
    rebind.pc \in {"built", "done"}
    => /\ Len(rebind.updates) = Cardinality(WithId(rebind.datasources))
       /\ \A i \in 1..Len(rebind.updates) :
            \E kv \in rebind.updates[i].datasourceSelector : kv[1] = "datasourceId"

AllHaveIds(dss) == \A i \in 1..Len(dss) : dss[i].id # ""

UpdateCalls == Cardinality({i \in 1..Len(httpLog) : httpLog[i].kind = "update"})

\* C11: rebinding N >= 1 data sources that all have ids issues exactly one
\* update call, whose body holds N descriptors, the i-th selecting the i-th
\* data source's id and type and each carrying the connection string built
\* from the destination authority and catalog; no update is posted earlier.
C11_OneBatchedCall ==
    /\ rebind.pc # "done" => UpdateCalls = 0
    /\ (/\ rebind.pc = "done"
        /\ rebind.datasources # <<>>
        /\ AllHaveIds(rebind.datasources))
       => /\ UpdateCalls = 1
          /\ rebind.calls = 1
          /\ Len(rebind.body) = Len(rebind.datasources)
          /\ \A i \in 1..Len(rebind.body) :
               /\ rebind.body[i].datasourceSelector
                    = {<<"datasourceId", rebind.datasources[i].id>>,
                       <<"datasourceType", rebind.datasources[i].type>>}
               /\ rebind.body[i].connectionDetails
                    = <<"powerbi://", rebind.dw_connection,
                        ";Initial Catalog=", rebind.dw_name>>

\* Three data sources with ids, two of them different, rebound in one call.
C11_Witness ==
    /\ rebind.pc = "done"
    /\ Len(rebind.datasources) = 3
    /\ AllHaveIds(rebind.datasources)
    /\ rebind.datasources[1].id # rebind.datasources[2].id
    /\ rebind.calls = 1
    /\ error.kind = "none"

Count(kind) == Cardinality({i \in 1..Len(httpLog) : httpLog[i].kind = kind})

\* The staged attempt ended by a non-success status or a response without a
\* url (outcome "fail"), or by a transport exception (status 0).
StagedFailed ==
    /\ attempts # <<>>
    /\ attempts[1].strategy = "staged"
    /\ (attempts[1].outcome = "fail" \/ attempts[1] = Attempt("staged", TransportError, "raised"))

\* C13: when a step of the staged upload fails, by a non-success status, a
\* response without an upload url or a transport exception, the run goes on
\* to the direct binary strategy; and no staged step is issued twice.
C13_StagedFailureFallsToBinary ==
    /\ (StagedFailed /\ pc = "exited")
       => (Len(attempts) >= 2 /\ attempts[2].strategy = "binary")
    /\ \A kind \in {"location", "put", "trigger"} : Count(kind) <= 1

FatalKinds == {"auth", "validation", "packaging", "all_failed", "upload_exception"}

\* C14: the exit code is set when the run ends and only then; it is 0 exactly
\* when the run ended with an upload attempt the service accepted, and it is
\* 1 after a token, validation or packaging failure, after all strategies
\* failed and after an exception of an upload.
C14_ExitCodeTellsSuccess ==
    /\ pc # "exited" <=> exitCode = -1
    /\ pc = "exited"
       => /\ exitCode \in {0, 1}
          /\ exitCode = 0 <=> (/\ attempts # <<>>
                               /\ attempts[Len(attempts)].outcome = "ok"
                               /\ ~result.isNone)
          /\ exitCode = 1 <=> error.kind \in FatalKinds

\* A run whose every strategy failed, ended with exit code 1.
C14_Witness ==
    /\ pc = "exited"
    /\ exitCode = 1
    /\ error.kind = "all_failed"
    /\ Len(attempts) = 4

\* C15: after the token request failed the run is over with nothing built and
\* no request but the token request issued; after the validation or the
\* builder failed no upload request of any strategy is issued, then or later.
C15_FatalErrorAborts ==
    /\ error.kind = "auth"
       => /\ pc = "exited"
          /\ ~created /\ ~disk.exists /\ pbix_file = "None"
          /\ httpLog = <<Req("token", "")>>
    /\ error.kind \in {"validation", "packaging"}
       => /\ pc \in {"except", "finally", "exited"}
          /\ pbix_file = "None"
          /\ attempts = <<>>
          /\ ~Issued(UploadKinds \cup {"workspace"})

\* A run ended by the token failure, and nothing after it.
C15_Witness ==
    /\ error.kind = "auth"
    /\ pc = "exited"
    /\ exitCode = 1
    /\ Len(httpLog) = 1

\* C16: once the wall-clock time since the start of the wait has reached the
\* timeout, the wait takes no further turn of its loop, however long the
\* status requests took; and a wait that timed out ended within one poll
\* interval of the timeout.
C16_WallClockBudget ==
    /\ (wait.pc = "loop" /\ wait.now >= wait.timeout)
       => ~LoopContinues(wait.elapsed, wait.timeout)
    /\ wait.outcome = "timeout" => wait.at < wait.timeout + PollInterval

SameIgnoringCase(a, b) ==
    \/ a = b
    \/ {a, b} \subseteq {"Sales", "SALES", "sales"}

NameMatches ==
    {i \in 1..Len(resolve.groups) :
        /\ resolve.workspace_name # ""
        /\ SameIgnoringCase(resolve.groups[i].name, resolve.workspace_name)}

\* The part of the policy that holds whatever comes after it: a given id is
\* returned as it is without a request, and without one the id of the first
\* workspace whose name matches, the case of letters aside, is returned.
IdThenName ==
    /\ resolve.workspace_id # ""
       => /\ resolve.outcome = "returned"
          /\ resolve.id = resolve.workspace_id
          /\ httpLog = <<>>
    /\ resolve.workspace_id = ""
       => /\ httpLog = <<Req("groups", "")>>
          /\ (resolve.outcome # "http_error" /\ NameMatches # {})
             => /\ resolve.outcome = "returned"
                /\ \E i \in NameMatches :
                     /\ resolve.id = resolve.groups[i].id
                     /\ \A j \in NameMatches : i <= j

\* C18 as stated: id first, then the name match, then a workspace is
\* created, then the first available workspace is used.
C18_ResolutionPolicy ==
    resolve.pc = "done"
    => /\ IdThenName
       /\ (/\ resolve.workspace_id = ""
           /\ resolve.outcome # "http_error"
           /\ NameMatches = {})
          => \/ resolve.outcome = "created"
             \/ (/\ resolve.outcome = "returned"
                 /\ resolve.groups # <<>>
                 /\ resolve.id = resolve.groups[1].id)

\* C18, amended: a given id is returned as it is without a request; without
\* one the id of the first workspace whose name matches the given name, the
\* case of letters aside, is returned; without a match, or without a name,
\* the call ends in the 'Workspace not found' exception: no workspace is
\* created and none is picked in its place.
C18_IdThenNameElseError ==
    resolve.pc = "done"
    => /\ IdThenName
       /\ resolve.outcome \in {"returned", "not_found", "http_error"}
       /\ (/\ resolve.workspace_id = ""
           /\ resolve.outcome # "http_error"
           /\ NameMatches = {})
          => (resolve.outcome = "not_found" /\ resolve.id = "" /\ error.kind = "not_found")
       /\ \A i \in 1..Len(httpLog) : httpLog[i].kind = "groups"

\* A name that matches none of the two workspaces listed.
C18_Witness ==
    /\ resolve.pc = "done"
    /\ resolve.workspace_name = "Dev"
    /\ Len(resolve.groups) = 2
    /\ resolve.outcome = "not_found"

\* C19: every update carries a credential block, with the username and the
\* password as given, when both were supplied, and empty credential details
\* when either is missing, the same for every data source.
C19_CredentialsIffBoth ==
    rebind.pc \in {"built", "done"}
    => \A i \in 1..Len(rebind.updates) :
         IF rebind.username # "" /\ rebind.password # ""
         THEN rebind.updates[i].credentialDetails
                = {<<"credentialType", "Basic">>,
                   <<"username", rebind.username>>,
                   <<"password", rebind.password>>,
                   <<"credentialsEncrypted", "False">>}
         ELSE rebind.updates[i].credentialDetails = {}

\* Two updates built with a username and no password.
C19_Witness ==
    /\ rebind.pc = "built"
    /\ Len(rebind.updates) = 2
    /\ rebind.username = "user"
    /\ rebind.password = ""
    /\ rebind.updates[2].credentialDetails = {}

\* C20: an upload attempt that succeeded is the last import request of the
\* run, so at most one import is triggered with success, also when the
\* staged upload's answer parses to the empty object.
C20_NoImportAfterSuccess ==
    /\ \A i \in 1..Len(attempts) : attempts[i].outcome = "ok" => i = Len(attempts)
    /\ Cardinality({i \in 1..Len(attempts) : attempts[i].outcome = "ok"}) <= 1

\* The attempt ended with the answer to its import request: always so for a
\* direct method, and for the staged upload when its trigger was posted.
EndedByImport(a) == a.strategy = "staged" => Issued({"trigger"})

\* C21: in every strategy an attempt whose import request came back 200, 201
\* or 202 with an empty body is a success: no exception is raised, it is the
\* last attempt of the run, and the run's result is {"status": "success"}.
C21_EmptyBodyIsSuccess ==
    \A i \in 1..Len(attempts) :
        (/\ EndedByImport(attempts[i])
         /\ attempts[i].status \in {200, 201, 202}
         /\ attempts[i].body = "")
        => /\ attempts[i].outcome = "ok"
           /\ i = Len(attempts)
           /\ result = Dict(Sentinel)
           /\ error.kind = "none"
           /\ pc \in {"report", "finally", "exited"}
           /\ pc = "exited" => exitCode = 0

\* The last strategy answered 202 without a body, and the run ended.
C21_Witness ==
    /\ Len(attempts) = 4
    /\ attempts[4] = Attempt("minimal", [status |-> 202, body |-> ""], "ok")
    /\ pc = "exited"
    /\ exitCode = 0

Range(f) == {f[i] : i \in DOMAIN f}

\* C22: the artifact create_proper_pbix_from_pbip returns holds every fixed
\* entry and, of the static resources, exactly the files whose read did not
\* fail, each once and in walk order; a failing file ends neither the build
\* nor the loop.
C22_FailedResourceSkipped ==
    (entry \in {"main", "proper"} /\ ArtifactReturned /\ disk.exists)
    => LET es == disk.entries
           rs == project.resources
           ok == {i \in 1..Len(rs) : rs[i] = "ok"}
       IN  /\ Range(FixedHead) \cup Range(FixedTail) \subseteq Range(es)
           /\ \A i \in 1..Len(ResourceNames) :
                ResourceNames[i] \in Range(es) <=> i \in ok
           /\ Len(es) = Cardinality(Range(es))
           /\ \A i, j \in ok :
                i < j => \E a, b \in 1..Len(es) :
                           a < b /\ es[a] = ResourceNames[i] /\ es[b] = ResourceNames[j]
           /\ error.kind # "packaging"

\* A project whose first resource file cannot be read and whose second can:
\* the artifact is returned with the second and without the first.
C22_Witness ==
    /\ project.resources = <<"unreadable", "ok">>
    /\ ArtifactReturned
    /\ verified
    /\ disk.exists
    /\ ResourceNames[2] \in Range(disk.entries)
    /\ ResourceNames[1] \notin Range(disk.entries)

\* C23: in a run of main, the artifact is on disk while upload requests are
\* issued; it holds Version, DataModelSchema, Report/Layout and DataModel;
\* the project files embedded in it hold valid JSON; and DiagramLayout is in
\* it exactly when diagramLayout.json is there with valid JSON.
C23_UploadedArtifactWellFormed ==
    (entry = "main" /\ Issued(UploadKinds) /\ pc # "exited")
    => /\ disk.exists
       /\ {"Version", "DataModelSchema", "Report/Layout", "DataModel"}
            \subseteq Range(disk.entries)
       /\ project.reportJson = "valid"
       /\ project.modelBim = "valid"
       /\ "DiagramLayout" \in Range(disk.entries) <=> project.diagram = "valid"

\* An upload of an artifact built from a project whose diagramLayout.json is
\* not valid JSON.
C23_Witness ==
    /\ entry = "main"
    /\ project.diagram = "invalid"
    /\ Issued({"trigger"})
    /\ disk.exists
    /\ "DiagramLayout" \notin Range(disk.entries)
    /\ "DataModel" \in Range(disk.entries)

\* The places of the requests of one kind in the log.
At(kind) == {i \in 1..Len(httpLog) : httpLog[i].kind = kind}

\* C24: the PUT is issued only after the location request came back 200 or
\* 201 with a url, and goes to that url; the import trigger is issued only
\* after the PUT came back 200 or 201, and its fileUrl is that same url; the
\* three requests follow one another in that order.
C24_StagedStepOrder ==
    /\ \A i \in At("put") :
         /\ i > 1 /\ httpLog[i - 1].kind = "location"
         /\ Len(staged) >= 1
         /\ staged[1].status \in {200, 201}
         /\ staged[1].url # ""
         /\ httpLog[i].url = staged[1].url
    /\ \A i \in At("trigger") :
         /\ i > 1 /\ httpLog[i - 1].kind = "put"
         /\ Len(staged) >= 2
         /\ staged[2].status \in {200, 201}
         /\ httpLog[i].url = httpLog[i - 1].url
         /\ httpLog[i].url = staged[1].url
    /\ Len(staged) = Count("location") + Count("put") + Count("trigger")

\* A staged upload through all three steps, to the second of the two urls.
C24_Witness ==
    /\ Len(staged) = 3
    /\ staged[1] = [status |-> 201, url |-> "u2"]
    /\ staged[2].status = 200
    /\ Issued({"trigger"})
    /\ upload_url = "u2"

\* ceil(timeout / PollInterval), 0 for a timeout of 0 or less.
CeilIntervals(timeout) ==
    IF timeout <= 0 THEN 0 ELSE (timeout + PollInterval - 1) \div PollInterval

WaitBounded ==
    /\ wait.requests <= CeilIntervals(wait.timeout)
    /\ wait.requests = Len(httpLog)
    /\ wait.timeout <= 0
       => (wait.requests = 0 /\ wait.outcome \in {"none", "timeout"})
    /\ wait.outcome = "http_error" => (wait.pc = "done" /\ error.kind = "http_error")
    /\ wait.pc = "done" => wait.outcome \in {"returned", "http_error", "timeout"}

\* C25: wait_for_dataset issues at most ceil(timeout/5) status requests and
\* none for a timeout of 0 or less, which ends in the timeout error; a status
\* request answered with an HTTP error status is its last; and the call ends.
C25_WaitTerminates == []WaitBounded /\ <>(wait.pc = "done")

\* A wait of 11 seconds that ended in the timeout error after 3 requests.
C25_Witness ==
    /\ wait.timeout = 11
    /\ wait.requests = 3
    /\ wait.outcome = "timeout"
    /\ wait.pc = "done"

ImportKinds == {"binary", "multipart", "minimal"}

====
